---------------------------- MODULE Spec2Model ----------------------------
(***************************************************************************)
(* A model of the nerve agent core: the response parser                    *)
(* (Agent::parse_model_response), the Invocation value (Invocation::new),  *)
(* the driver loop (Agent::step, Agent::dump_state) and the run state      *)
(* (State::execute, on_next_iteration, on_complete, is_complete).          *)
(*                                                                         *)
(* Text is a sequence of one-character strings; indices are 0-based as in  *)
(* the Rust source, Option<T> is a sequence of length 0 (None) or 1        *)
(* (Some(x) == <<x>>), and a HashMap<String, String> is a set of           *)
(* <<key, value>> pairs with unique keys.                                  *)
(***************************************************************************)
EXTENDS Integers, Sequences, FiniteSets, TLC

VARIABLES
    model_response,       \* the text handed to parse_model_response
    parsed,               \* what parse_model_response returned (or that it panicked)
    pc,                   \* position of the modelled process
    fields,               \* (action, attributes, payload) given to Invocation::new
    built,                \* the Invocations built from fields so far
    complete,             \* State.complete
    curr_iter,            \* State.curr_iter
    max_iters,            \* State.max_iters
    history,              \* State.history
    persist_state_path,   \* Agent.persist_state_path
    persist_prompt_path,  \* Agent.persist_prompt_path
    files,                \* what the two destinations hold
    invocations,          \* step: the invocations the for loop has yet to visit
    prev,                 \* step: prev
    step_parsed,          \* step: the xml of every invocation parsed in this step
    processed,            \* step: how many of them the for loop has visited
    executed,             \* step: the xml of every invocation handed to execute
    completed_at,         \* step: index in executed of the call that set complete
    dump_calls,           \* step: calls of dump_state
    dump_ok,              \* step: calls of dump_state that returned Ok
    completion,           \* the `impossible` argument of the last on_complete call
    generated,            \* how many fragments the generation service has sent
    advances,             \* whether each on_next_iteration call so far returned Ok(())
    last,                 \* what the last call of execute did (None before the first)
    storages,             \* State.storages
    rendered,             \* step: the prompts rendered for the generation request
    dump_failed,          \* step: a write of dump_state has failed
    mutex,                \* who holds the guard of State.history ("free": nobody)
    run_ops,              \* the calls into the state that the running action has yet to make
    run_done,             \* the calls into the state that the running action has made
    store,                \* NaiveVectorStore.store
    results,              \* what the last retrieve returned
    top_k,                \* the top_k of the last retrieve
    calls                 \* the operations called on the State, with the flag before and after

parseVars == <<model_response, parsed>>

buildVars == <<fields, built>>

stateVars ==
    <<complete, curr_iter, max_iters, history, completion, advances, storages>>

agentVars == <<persist_state_path, persist_prompt_path, files>>

stepVars ==
    <<invocations, prev, step_parsed, processed, executed, completed_at,
      dump_calls, dump_ok, last, rendered, dump_failed>>

lockVars == <<mutex, run_ops, run_done>>

ragVars == <<store, results, top_k>>

vars ==
    <<parseVars, pc, buildVars, stateVars, agentVars, stepVars, generated, lockVars,
      ragVars, calls>>

-----------------------------------------------------------------------------
(* Option<T> *)

None == <<>>

Some(x) == <<x>>

IsSome(o) == Len(o) = 1

Unwrap(o) == o[1]

-----------------------------------------------------------------------------
(* str primitives used by the parser *)

\* A text is the sequence of its UTF-8 code units, indexed from 0 as the code
\* indexes a &str.  An ASCII character is one unit, written as itself.  Any
\* other character is written by its code point ("U+00E9") in its first unit
\* and is followed by one Cont for each further byte of its encoding.
Cont == "cont"

\* char::len_utf8, for the characters that the model writes: U+0085, U+00A0
\* and U+00E9 take two bytes, those from U+1680 on take three
len_utf8(c) ==
    IF c \in {"U+0085", "U+00A0", "U+00E9"} THEN 2
    ELSE IF c \in {"U+1680", "U+2000", "U+2001", "U+2002", "U+2003", "U+2004",
                   "U+2005", "U+2006", "U+2007", "U+2008", "U+2009", "U+200A",
                   "U+2028", "U+2029", "U+202F", "U+205F", "U+3000"} THEN 3
    ELSE 1

\* str::is_char_boundary
is_char_boundary(s, i) == i = Len(s) \/ (i >= 0 /\ i < Len(s) /\ s[i + 1] # Cont)

\* &s[a..b]: callers check a <= b <= len first (Rust panics otherwise)
Slice(s, a, b) == SubSeq(s, a + 1, b)

\* &s[a..]
SliceFrom(s, a) == SubSeq(s, a + 1, Len(s))

\* str::find(char set): index of the first character in cs, or NotFound
NotFound == 0 - 1

FindChar(s, cs) ==
    LET hits == {i \in 0..(Len(s) - 1) : s[i + 1] \in cs}
    IN  IF hits = {} THEN NotFound
        ELSE CHOOSE i \in hits : \A j \in hits : i <= j

\* str::find(&str): index of the first occurrence of pat, or NotFound
FindStr(s, pat) ==
    LET hits == {i \in 0..(Len(s) - Len(pat)) : Slice(s, i, i + Len(pat)) = pat}
    IN  IF hits = {} THEN NotFound
        ELSE CHOOSE i \in hits : \A j \in hits : i <= j

\* char::is_whitespace: the characters with the Unicode property White_Space
\* (U+0009 to U+000D, the space, and those outside ASCII)
WhiteSpace ==
    {"\t", "\n", "", "\f", "\r", " ", "U+0085", "U+00A0", "U+1680", "U+2000",
     "U+2001", "U+2002", "U+2003", "U+2004", "U+2005", "U+2006", "U+2007",
     "U+2008", "U+2009", "U+200A", "U+2028", "U+2029", "U+202F", "U+205F",
     "U+3000"}

\* str::trim_start: the leading white space characters go, each with all its
\* units
RECURSIVE TrimStart(_)
TrimStart(s) ==
    IF s # <<>> /\ Head(s) \in WhiteSpace
    THEN TrimStart(SubSeq(s, len_utf8(Head(s)) + 1, Len(s)))
    ELSE s

\* the index of the first unit of the last character of a non-empty text
LastChar(s) == CHOOSE i \in 1..Len(s) : s[i] # Cont /\ \A j \in (i + 1)..Len(s) : s[j] = Cont

\* str::trim_end
RECURSIVE TrimEnd(_)
TrimEnd(s) ==
    IF s # <<>> /\ s[LastChar(s)] \in WhiteSpace
    THEN TrimEnd(SubSeq(s, 1, LastChar(s) - 1))
    ELSE s

\* str::trim
Trim(s) == TrimEnd(TrimStart(s))

-----------------------------------------------------------------------------
(* Invocation *)

\* The orders in which a HashMap holding the pairs of m may be iterated: std's
\* HashMap seeds every instance with its own random state, so two maps with the
\* same content need not iterate alike.
IterationOrders(m) ==
    {o \in [1..Cardinality(m) -> m] : \A i, j \in 1..Cardinality(m) : i # j => o[i] # o[j]}

\* xml += &format!(" {key}=\"{value}\"") for each (key, value) in iteration order
RECURSIVE FormatAttrs(_)
FormatAttrs(order) ==
    IF order = <<>> THEN <<>>
    ELSE <<" ">> \o Head(order)[1] \o <<"=", "\"">> \o Head(order)[2] \o <<"\"">>
         \o FormatAttrs(Tail(order))

\* the xml field computed by Invocation::new, the map being iterated in `order`
FormatXml(action, attributes, payload, order) ==
    <<"<">> \o action
    \o (IF IsSome(attributes) THEN FormatAttrs(order) ELSE <<>>)
    \o <<">">> \o (IF IsSome(payload) THEN Unwrap(payload) ELSE <<>>)
    \o <<"<", "/">> \o action \o <<">">>

\* Invocation::new
InvocationNew(action, attributes, payload, order) ==
    [action |-> action, attributes |-> attributes, payload |-> payload,
     xml |-> FormatXml(action, attributes, payload, order)]

\* every Invocation that Invocation::new may build from the three fields
InvocationsOf(action, attributes, payload) ==
    {InvocationNew(action, attributes, payload, o) :
        o \in IterationOrders(IF IsSome(attributes) THEN Unwrap(attributes) ELSE {})}

\* Invocation::to_structured_string
to_structured_string(inv) == inv.xml

-----------------------------------------------------------------------------
(* Agent::parse_model_response *)

\* attrs.insert(key, value): the last value of a key wins
MapInsert(m, key, value) == {e \in m : e[1] # key} \cup {<<key, value>>}

\* attr_regex.captures_iter(attr_str), for (([^=]+)="([^"]+)"): the successive
\* leftmost matches from index i on, each as <<group 2, group 3>>.  A match
\* that starts at i has its key run up to the first '=' at j > i, then needs
\* '"' at j + 1 and a non-empty value up to the next '"' at q > j + 2.
RECURSIVE CapturesIter(_, _)
CapturesIter(s, i) ==
    LET rel == FindChar(SliceFrom(s, i), {"="})
        j   == i + rel
        qr  == FindChar(SliceFrom(s, j + 2), {"\""})
        q   == j + 2 + qr
    IN  IF i >= Len(s) \/ rel = NotFound THEN <<>>
        ELSE IF rel = 0 THEN CapturesIter(s, i + 1)
        ELSE IF j + 2 <= Len(s) /\ s[j + 2] = "\"" /\ qr # NotFound /\ qr > 0
             THEN <<<<Slice(s, i, j), Slice(s, j + 2, q)>>>> \o CapturesIter(s, q + 1)
             ELSE CapturesIter(s, j + 1)

\* for caps in iter { attrs.insert(key.trim(), value.trim()) }
RECURSIVE CollectAttrs(_, _)
CollectAttrs(caps, attrs) ==
    IF caps = <<>> THEN attrs
    ELSE CollectAttrs(Tail(caps),
                      MapInsert(attrs, Trim(Head(caps)[1]), Trim(Head(caps)[2])))

\* a parser that reports an attribute block without pairs as absent
ParseAttributes_EmptyIsNone(ptr, tag_name_term_idx, tag_close_idx) ==
    LET attrs == CollectAttrs(
                     CapturesIter(Slice(ptr, tag_name_term_idx + 1, tag_close_idx), 0), {})
    IN  IF ptr[tag_name_term_idx + 1] = " " /\ attrs # {} THEN Some(attrs) ELSE None

\* lines 112-129: attributes of the tag held by ptr
ParseAttributes(ptr, tag_name_term_idx, tag_close_idx) ==
    IF ptr[tag_name_term_idx + 1] = " "
    THEN Some(CollectAttrs(
             CapturesIter(Slice(ptr, tag_name_term_idx + 1, tag_close_idx), 0), {}))
    ELSE None

\* lines 132-141: payload of the tag held by ptr
ParsePayload(after_tag_close) ==
    IF after_tag_close # <<>>
    THEN IF after_tag_close[1] # "<" THEN Some(Trim(after_tag_close)) ELSE None
    ELSE None

\* current after the tag name, the '>' and the closing-tag search (lines 103, 107)
CurrentAfterTag(current, tag_name_term_idx, tag_close_idx, tag_name) ==
    current + tag_name_term_idx + tag_close_idx + Len(tag_name)

\* The while loop of parse_model_response from `current` on.  The result holds
\* the fields of the invocations pushed so far (the xml is added by
\* Invocation::new), whether a slice panicked (line 97: current inside a
\* character; line 132: begin > end), and, for each '<' visited, a scan
\* record: where it is, whether it was emitted, where its closing tag ends and
\* the value of current the loop goes on with.
RECURSIVE ParseLoop(_, _, _, _)
ParseLoop(s, current, invs, scan) ==
    LET ptr0 == SliceFrom(s, current)
        tag_open_idx == FindChar(ptr0, {"<"})
        open == current + tag_open_idx
        ptr == SliceFrom(ptr0, tag_open_idx)
        tag_name_term_idx == FindChar(ptr, {">", " "})
        tag_name == Slice(ptr, 1, tag_name_term_idx)
        tag_close_idx == FindChar(ptr, {">"})
        cur == CurrentAfterTag(open, tag_name_term_idx, tag_close_idx, tag_name)
        tag_closing == <<"<", "/">> \o tag_name \o <<">">>
        tag_closing_idx == FindStr(ptr, tag_closing)
        attributes == ParseAttributes(ptr, tag_name_term_idx, tag_close_idx)
        payload == ParsePayload(Slice(ptr, tag_close_idx + 1, tag_closing_idx))
        skip(c) == ParseLoop(s, c + 1, invs,
                       Append(scan, [open |-> open, emitted |-> FALSE,
                                     end |-> open, resume |-> c + 1]))
    IN  IF current >= Len(s)
        THEN [panicked |-> FALSE, invocations |-> invs, scan |-> scan]
        ELSE IF ~is_char_boundary(s, current)
             THEN \* &model_response[current..]: current is inside a character
                  [panicked |-> TRUE, invocations |-> invs, scan |-> scan]
        ELSE IF tag_open_idx = NotFound
        THEN [panicked |-> FALSE, invocations |-> invs, scan |-> scan]
        ELSE IF tag_name_term_idx = NotFound THEN skip(open)
        ELSE IF tag_close_idx = NotFound THEN skip(open + tag_name_term_idx)
        ELSE IF tag_closing_idx = NotFound THEN skip(cur)
        ELSE IF tag_close_idx + 1 > tag_closing_idx
             THEN \* &ptr[tag_close_idx + 1..tag_closing_idx]: begin > end
                  [panicked |-> TRUE, invocations |-> invs, scan |-> scan]
        ELSE ParseLoop(s, cur,
                 Append(invs, [action |-> tag_name, attributes |-> attributes,
                               payload |-> payload]),
                 Append(scan, [open |-> open, emitted |-> TRUE,
                               end |-> open + tag_closing_idx + Len(tag_closing),
                               resume |-> cur]))

\* parse_model_response, up to the HashMap iteration order inside Invocation::new
parse_model_response(s) == ParseLoop(s, 0, <<>>, <<>>)

\* the Invocations pushed for the parsed fields, one Invocation::new each
RECURSIVE BuildInvocations(_)
BuildInvocations(parts) ==
    IF parts = <<>> THEN {<<>>}
    ELSE {<<inv>> \o rest :
            inv \in InvocationsOf(Head(parts).action, Head(parts).attributes,
                                  Head(parts).payload),
            rest \in BuildInvocations(Tail(parts))}

-----------------------------------------------------------------------------
(* Namespaces and actions *)

Tag(name, payload) ==
    <<"<">> \o name \o <<">">> \o payload \o <<"<", "/">> \o name \o <<">">>

N_read_file == <<"r", "e", "a", "d", "-", "f", "i", "l", "e">>

N_read_folder == <<"r", "e", "a", "d", "-", "f", "o", "l", "d", "e", "r">>

X_read_file ==
    <<"/", "p", "a", "t", "h", "/", "t", "o", "/", "f", "i", "l", "e", "/",
      "t", "o", "/", "r", "e", "a", "d">>

X_read_folder ==
    <<"/", "p", "a", "t", "h", "/", "t", "o", "/", "f", "o", "l", "d", "e", "r">>

N_done == <<"d", "o", "n", "e">>

N_fail == <<"f", "a", "i", "l">>

X_reason == <<"w", "h", "y">>

N_note == <<"n", "o", "t", "e">>

N_ping == <<"p", "i", "n", "g">>

N_set == <<"s", "e", "t">>

X_attrs == {<<<<"k">>, <<"v">>>>}

\* ReadFile: name(), example_payload(); attributes() is not overridden
ReadFile ==
    [name |-> N_read_file, example_payload |-> Some(X_read_file),
     attributes |-> None, behaviour |-> "read_file"]

\* ReadFolder: name(), example_payload(); attributes() is not overridden
ReadFolder ==
    [name |-> N_read_folder, example_payload |-> Some(X_read_folder),
     attributes |-> None, behaviour |-> "read_folder"]

\* a task-supplied action whose run calls on_complete(false, payload)
TaskDone ==
    [name |-> N_done, example_payload |-> Some(X_reason),
     attributes |-> None, behaviour |-> "complete"]

\* a task-supplied action whose run calls on_complete(true, payload)
TaskFail ==
    [name |-> N_fail, example_payload |-> Some(X_reason),
     attributes |-> None, behaviour |-> "impossible"]

\* a task-supplied action with example attributes and no example payload; its
\* run returns Ok(None)
TaskNote ==
    [name |-> N_note, example_payload |-> None,
     attributes |-> Some(X_attrs), behaviour |-> "note"]

\* a task-supplied action with neither example; its run returns Ok(Some(..))
TaskPing ==
    [name |-> N_ping, example_payload |-> None,
     attributes |-> None, behaviour |-> "ping"]

\* a task-supplied action with both examples; its run returns Ok(Some(..))
TaskSet ==
    [name |-> N_set, example_payload |-> Some(X_reason),
     attributes |-> Some(X_attrs), behaviour |-> "ping"]

\* get_namespace() of the filesystem namespace
Filesystem ==
    [name |-> "Filesystem", actions |-> <<ReadFile, ReadFolder>>, storages |-> None]

\* a registered namespace that needs the goal slot, of kind Single (its
\* actions are not part of this model)
Goal ==
    [name |-> "Goal", actions |-> <<>>,
     storages |-> Some(<<[name |-> "goal", type_ |-> "Single"]>>)]

\* a registered namespace that needs a memory slot, of kind List (its actions
\* are not part of this model)
Memory ==
    [name |-> "Memory", actions |-> <<>>,
     storages |-> Some(<<[name |-> "memories", type_ |-> "List"]>>)]

\* actions::NAMESPACES, the static registry
NAMESPACES == <<Filesystem, Goal, Memory>>

\* the namespace of task.get_functions()
TaskFunctions ==
    [name |-> "Task", actions |-> <<TaskDone, TaskFail, TaskNote, TaskPing, TaskSet>>,
     storages |-> None]

\* State.namespaces, for a task that declares no allowlist (lines 47-65)
namespaces == NAMESPACES \o <<TaskFunctions>>

\* task.to_prompt()
TaskPrompt == "the task"

\* Storage::new(name, type_): an empty slot
StorageNew(name, type_) == [name |-> name, type_ |-> type_, current |-> None]

\* lines 68-80: one slot per storage name the namespaces require, the first
\* declaration of a name deciding its kind
RECURSIVE RequiredStorages(_, _)
RequiredStorages(specs, acc) ==
    IF specs = <<>> THEN acc
    ELSE RequiredStorages(Tail(specs),
             IF \E st \in acc : st.name = Head(specs).name THEN acc
             ELSE acc \cup {StorageNew(Head(specs).name, Head(specs).type_)})

RECURSIVE NamespaceStorages(_, _)
NamespaceStorages(nss, acc) ==
    IF nss = <<>> THEN acc
    ELSE NamespaceStorages(Tail(nss),
             IF IsSome(Head(nss).storages)
             THEN RequiredStorages(Unwrap(Head(nss).storages), acc)
             ELSE acc)

\* lines 84-88: goal.set_current(&prompt, false) if there is a goal slot
SetGoal(sts) ==
    {IF st.name = "goal" THEN [st EXCEPT !.current = Some(TaskPrompt)] ELSE st : st \in sts}

\* State::new: the storages of the new state
NewStorages(nss) == SetGoal(NamespaceStorages(nss, {}))

\* Storage::get_type_int: the rendering priority of the slot's kind
get_type_int(st) == IF st.type_ = "Single" THEN 0 ELSE 1

\* Storage::to_structured_string: the text block of a slot
StorageBlock(st) == [slot |-> st.name, text |-> st.current]

\* sorted.sort_by_key(|x| x.get_type_int()): a stable sort
RECURSIVE SortByTypeInt(_)
SortByTypeInt(sts) ==
    IF sts = <<>> THEN <<>>
    ELSE LET rest == SortByTypeInt(Tail(sts))
             before == SelectSeq(rest, LAMBDA x : get_type_int(x) < get_type_int(Head(sts)))
             after == SelectSeq(rest, LAMBDA x : get_type_int(x) >= get_type_int(Head(sts)))
         IN  before \o <<Head(sts)>> \o after

\* the text blocks of the slots of sts, in order
Blocks(sts) == [i \in 1..Len(sts) |-> StorageBlock(sts[i])]

\* the file system: /tmp/a.txt is a readable file, /tmp/b.txt does not exist,
\* /tmp/d is a folder that can be listed and /tmp/l a folder holding a link to
\* nothing
Path_a == <<"/", "t", "m", "p", "/", "a", ".", "t", "x", "t">>

Path_b == <<"/", "t", "m", "p", "/", "b", ".", "t", "x", "t">>

Path_d == <<"/", "t", "m", "p", "/", "d">>

Path_l == <<"/", "t", "m", "p", "/", "l">>

\* the paths std::fs::read_to_string reads
Files == {Path_a}

\* the paths fs::read_dir lists
Folders == {Path_d, Path_l}

\* the folders with an entry whose canonicalize() or metadata() is an Err
BrokenFolders == {Path_l}

-----------------------------------------------------------------------------
(* State *)

\* an advance that compares the counter with the budget before incrementing it
on_next_iteration_CheckFirst(iter, max) ==
    [curr_iter |-> iter + 1, ok |-> ~(max > 0 /\ iter >= max)]

\* State::on_next_iteration: the new counter and whether Ok(()) is returned
on_next_iteration(iter, max) ==
    [curr_iter |-> iter + 1, ok |-> ~(max > 0 /\ iter + 1 >= max)]

\* on_complete that forgets the flag when the task is judged impossible
on_complete_OnlySuccess(impossible, reason) == ~impossible

\* State::on_complete: the value stored in State.complete
on_complete(impossible, reason) == TRUE

\* a reader that never sees the flag set
is_complete_NeverSet(c) == FALSE

\* State::is_complete, for the flag value c
is_complete(c) == c

\* the banner "You are currently at step {} of a maximum of {}."
IterationBanner == IF max_iters > 0 THEN <<curr_iter + 1, max_iters>> ELSE <<>>

\* State::available_actions_to_string: name and actions of every namespace
available_actions_to_string ==
    [i \in 1..Len(namespaces) |->
        [name |-> namespaces[i].name,
         actions |-> [j \in 1..Len(namespaces[i].actions) |->
                         namespaces[i].actions[j].name]]]

\* State::to_pretty_string, self.storages.values() iterating in `order`: the
\* slots sorted by kind, then the banner (no action descriptions)
to_pretty_string(order) ==
    [storages |-> Blocks(SortByTypeInt(order)), iterations |-> IterationBanner]

\* State::to_system_prompt, self.storages.values() iterating in `order`
to_system_prompt(order) ==
    [system_prompt |-> "task system prompt", storages |-> Blocks(order),
     available_actions |-> available_actions_to_string,
     guidance |-> "task guidance", iterations |-> IterationBanner]

\* State::to_prompt
to_prompt == TaskPrompt

\* self.history.lock(): Err once a holder of the guard has panicked
lock_history == IF mutex = "poisoned" THEN "Err" ELSE "Ok"

\* State::add_execution_to_history, `lock` being what self.history.lock()
\* returns: the record is pushed if let Ok(guard), and dropped silently otherwise
add_execution_to_history(hist, lock, invocation, result, error) ==
    IF lock = "Ok"
    THEN Append(hist, [invocation |-> invocation, result |-> result, error |-> error])
    ELSE hist

ExampleError ==
    "do not use the example values but use the information you have to create new ones"

\* for group in &self.namespaces { for action in &group.actions {..} }: the first
\* action with that name
RECURSIVE AllActions(_)
AllActions(groups) ==
    IF groups = <<>> THEN <<>> ELSE Head(groups).actions \o AllActions(Tail(groups))

FindAction(name) ==
    LET all == AllActions(namespaces)
        hits == {i \in 1..Len(all) : all[i].name = name}
    IN  IF hits = {} THEN None
        ELSE Some(all[CHOOSE i \in hits : \A j \in hits : i <= j])

\* action.run(state, attributes, payload): whether it panics, what it returns
\* and the `impossible` argument of the on_complete call it makes, if any
RunAction(action, attributes, payload) ==
    LET ret(ok, value, done) ==
            [panicked |-> FALSE, ok |-> ok, value |-> value, on_complete |-> done]
        panic == [panicked |-> TRUE, ok |-> FALSE, value |-> None, on_complete |-> None]
    IN  CASE action.behaviour = "read_file" ->
               IF payload = None THEN panic   \* payload.unwrap()
               ELSE IF Unwrap(payload) \in Files
                    THEN ret(TRUE, Some("contents"), None)
                    ELSE IF Unwrap(payload) \in Folders
                         THEN ret(FALSE, Some("Is a directory"), None)
                         ELSE ret(FALSE, Some("No such file or directory"), None)
          [] action.behaviour = "read_folder" ->
               IF payload = None THEN panic   \* payload.unwrap()
               ELSE IF Unwrap(payload) \in BrokenFolders
                    THEN panic   \* entry.path().canonicalize().unwrap()
                    ELSE IF Unwrap(payload) \in Folders
                         THEN ret(TRUE, Some("Contents of"), None)
                         ELSE ret(FALSE, Some("can't read"), None)
          [] action.behaviour = "complete" -> ret(TRUE, None, Some(FALSE))
          [] action.behaviour = "impossible" -> ret(TRUE, None, Some(TRUE))
          [] action.behaviour = "note" -> ret(TRUE, None, None)
          [] action.behaviour = "ping" -> ret(TRUE, Some("pong"), None)

\* what execute makes of its call: whether it panicked, whether it returned
\* Ok(()), whether an action had that name, whether action.run was called, the
\* history and flag it leaves and the `impossible` argument of on_complete
ExecuteOutcome(panicked, ok, found, ran, hist, c, done) ==
    [panicked |-> panicked, ok |-> ok, found |-> found, ran |-> ran,
     history |-> hist, complete |-> c, on_complete |-> done]

\* an execute that reports an unknown action as an error
UnknownAction_IsError(invocation, hist, c) ==
    ExecuteOutcome(FALSE, FALSE, FALSE, FALSE, hist, c, None)

\* lines 257-266: no action has that name, Ok(())
UnknownAction(invocation, hist, c) ==
    ExecuteOutcome(FALSE, TRUE, FALSE, FALSE, hist, c, None)

\* an execute that drops the record of a failed action
RecordRun_ErrorDropped(hist, invocation, ret) ==
    IF ~ret.ok THEN hist
    ELSE add_execution_to_history(hist, lock_history, invocation, ret.value, None)

\* lines 248-252: the record for what action.run returned
RecordRun(hist, invocation, ret) ==
    IF ~ret.ok
    THEN add_execution_to_history(hist, lock_history, invocation, None, ret.value)
    ELSE add_execution_to_history(hist, lock_history, invocation, ret.value, None)

\* State::execute(invocation) on history hist and flag c
execute(invocation, hist, c) ==
    LET panic(ran) == ExecuteOutcome(TRUE, FALSE, TRUE, ran, hist, c, None)
        found == FindAction(invocation.action)
        action == Unwrap(found)
        guarded ==
            ExecuteOutcome(FALSE, TRUE, TRUE, FALSE,
                add_execution_to_history(hist, lock_history, invocation, None,
                                         Some(ExampleError)),
                c, None)
        ret == RunAction(action, invocation.attributes, invocation.payload)
        flag == IF IsSome(ret.on_complete)
                THEN on_complete(Unwrap(ret.on_complete), invocation.payload)
                ELSE c
    IN  IF found = None THEN UnknownAction(invocation, hist, c)
        ELSE IF IsSome(invocation.payload) /\ action.example_payload = None
             THEN panic(FALSE)   \* action.example_payload().unwrap()
        ELSE IF IsSome(invocation.payload)
                /\ Unwrap(action.example_payload) = Unwrap(invocation.payload)
             THEN guarded
        ELSE IF IsSome(invocation.attributes) /\ action.attributes = None
             THEN panic(FALSE)   \* action.attributes().as_ref().unwrap()
        ELSE IF IsSome(invocation.attributes)
                /\ Unwrap(action.attributes) = Unwrap(invocation.attributes)
             THEN guarded
        ELSE IF ret.panicked THEN panic(TRUE)
        ELSE ExecuteOutcome(FALSE, TRUE, TRUE, TRUE,
                 RecordRun(hist, invocation, ret), flag, ret.on_complete)

\* the part of an execute outcome kept in `last`
Summary(invocation, r) ==
    Some([invocation |-> invocation, panicked |-> r.panicked, ok |-> r.ok,
          found |-> r.found, ran |-> r.ran])

-----------------------------------------------------------------------------
(* The parser on its own: every text made of at most MaxTokens fragments *)

MaxTokens == 5

Tokens ==
    { <<"<">>, <<">">>, <<" ">>, <<"x">>, <<"\f">>, <<"U+00E9", Cont>>,
      <<"<", "a">>, <<"<", "/", "a", ">">>,
      <<"k", "=", "\"", "v", "\"">>,
      <<"<", "b", ">", "y", "<", "/", "b", ">">> }

\* the text made of the fragments of toks, in order
RECURSIVE Flatten(_)
Flatten(toks) ==
    IF toks = <<>> THEN <<>> ELSE Head(toks) \o Flatten(Tail(toks))

NotParsed == [panicked |-> FALSE, invocations |-> <<>>, scan |-> <<>>]

-----------------------------------------------------------------------------
(* Agent *)

NoFiles == [state |-> None, prompt |-> None]

\* what a destination holds: nothing (an empty file), the text written to it,
\* or a part of that text: a non-empty prefix that is not the whole of it
EmptyFile == <<>>

FileWith(text) == <<text>>

PartOf(text) == <<"part of", text>>

\* the writes of dump_state that fail when it goes as io
StateFailures == {"state", "state_trunc", "state_part"}

PromptFailures == {"prompt", "prompt_trunc", "prompt_part"}

\* the ways dump_state can go: no write fails ("ok"), or the write to one
\* configured destination fails, before the destination is opened ("state",
\* "prompt"), after it has been created or truncated ("state_trunc",
\* "prompt_trunc"), or after a part of the text has been written
\* ("state_part", "prompt_part")
DumpOutcomes ==
    {"ok"} \cup (IF IsSome(persist_state_path) THEN StateFailures ELSE {})
           \cup (IF IsSome(persist_prompt_path) THEN PromptFailures ELSE {})

\* std::fs::write(path, text), that is File::create and write_all, on a
\* destination holding `old`, failing as `io` tells: "open" leaves the
\* destination alone, "trunc" leaves it empty, "part" leaves a part of the text
fs_write(old, text, io) ==
    IF io = "open" THEN old
    ELSE IF io = "trunc" THEN Some(EmptyFile)
    ELSE IF io = "part" THEN Some(PartOf(text))
    ELSE Some(FileWith(text))

\* how the write of the state goes when dump_state goes as io
StateWrite(io) ==
    IF io = "state" THEN "open"
    ELSE IF io = "state_trunc" THEN "trunc"
    ELSE IF io = "state_part" THEN "part"
    ELSE "ok"

\* how the write of the prompt goes when dump_state goes as io
PromptWrite(io) ==
    IF io = "prompt" THEN "open"
    ELSE IF io = "prompt_trunc" THEN "trunc"
    ELSE IF io = "prompt_part" THEN "part"
    ELSE "ok"

\* the destinations after the writes of dump_state going as io
DumpFiles(io, order) ==
    [state |-> IF IsSome(persist_state_path)
               THEN fs_write(files.state, to_pretty_string(order),
                             StateWrite(io))
               ELSE files.state,
     prompt |-> IF IsSome(persist_prompt_path) /\ io \notin StateFailures
                THEN fs_write(files.prompt, Unwrap(persist_prompt_path),
                              PromptWrite(io))
                ELSE files.prompt]

\* a dump_state that ignores the outcome of its writes
dump_state_Swallow(io, order) == [ok |-> TRUE, files |-> DumpFiles(io, order)]

\* Agent::dump_state when a write fails as io tells ("ok": none does):
\* whether it returns Ok(()) and what the destinations hold afterwards
dump_state(io, order) == [ok |-> io = "ok", files |-> DumpFiles(io, order)]

\* if inv.xml == *p, for the prev of step
IsDuplicate_ByAction(inv, p) ==
    IsSome(p) /\ Slice(Unwrap(p), 1, 1 + Len(inv.action)) = inv.action

IsDuplicate(inv, p) == IsSome(p) /\ inv.xml = Unwrap(p)

\* a loop that never looks at the flag
BreakOnComplete_Never(c) == FALSE

\* if self.state.is_complete() { break; }
BreakOnComplete(c) == is_complete(c)

\* Mutex::new(History::new()): nobody holds the guard, no action is running
Unlocked ==
    /\ mutex = "free"
    /\ run_ops = <<>>
    /\ run_done = <<>>

\* Store::new(): no documents, no embeddings; nothing retrieved yet
NoStore ==
    /\ store = [documents |-> {}, embeddings |-> {}]
    /\ results = <<>>
    /\ top_k = 0

StepIdle ==
    /\ invocations = <<>>
    /\ prev = None
    /\ step_parsed = <<>>
    /\ processed = 0
    /\ executed = <<>>
    /\ completed_at = 0
    /\ dump_calls = 0
    /\ dump_ok = 0
    /\ last = None
    /\ rendered = None
    /\ dump_failed = FALSE

-----------------------------------------------------------------------------
(* One run: the caller's loop around Agent::step *)

MaxSteps == 2

\* the fragments the generation service sends over one run
MaxFragments == 3

Budgets == {0, 1, 2, 3}

Fragments ==
    { Tag(N_read_file, Path_a), Tag(N_read_file, Path_b),
      Tag(N_done, <<"o", "k">>), Tag(N_fail, <<"n", "o">>),
      Tag(<<"z", "z">>, <<"q">>) }

Init ==
    /\ model_response = <<>>
    /\ parsed = NotParsed
    /\ fields = <<>>
    /\ built = <<>>
    /\ complete = FALSE
    /\ completion = None
    /\ curr_iter = 0
    /\ max_iters \in Budgets
    /\ storages = NewStorages(namespaces)
    /\ advances = <<>>
    /\ history = <<>>
    /\ persist_state_path \in {None, Some("state.txt")}
    /\ persist_prompt_path \in {None, Some("prompt.txt")}
    /\ files = NoFiles
    /\ StepIdle
    /\ Unlocked
    /\ calls = <<>>
    /\ NoStore
    /\ generated = 0
    /\ pc = "idle"

\* the caller leaves its loop: is_complete() holds
CallerStops ==
    /\ pc = "idle"
    /\ is_complete(complete)
    /\ pc' = "finished"
    /\ UNCHANGED <<calls, lockVars, ragVars,
                   parseVars, buildVars, stateVars, agentVars, stepVars, generated>>

\* a caller that goes on calling step once the task is complete
CallerAdvance_IgnoresFlag ==
    /\ pc = "idle"
    /\ curr_iter < MaxSteps
    /\ curr_iter' = on_next_iteration(curr_iter, max_iters).curr_iter
    /\ advances' = Append(advances, on_next_iteration(curr_iter, max_iters).ok)
    /\ pc' = IF on_next_iteration(curr_iter, max_iters).ok THEN "step" ELSE "exhausted"
    /\ UNCHANGED <<calls, lockVars, ragVars,
                   parseVars, buildVars, complete, max_iters, history, completion,
                   storages, agentVars, stepVars, generated>>

\* the caller advances the iteration and, unless the task is complete or the
\* budget is spent, calls step
CallerAdvance ==
    /\ pc = "idle"
    /\ ~is_complete(complete)
    /\ curr_iter < MaxSteps
    /\ curr_iter' = on_next_iteration(curr_iter, max_iters).curr_iter
    /\ advances' = Append(advances, on_next_iteration(curr_iter, max_iters).ok)
    /\ pc' = IF on_next_iteration(curr_iter, max_iters).ok THEN "step" ELSE "exhausted"
    /\ UNCHANGED <<calls, lockVars, ragVars,
                   parseVars, buildVars, complete, max_iters, history, completion,
                   storages, agentVars, stepVars, generated>>

\* step, lines 187-190: render the prompts, dump_state()?
StepBegin ==
    /\ pc = "step"
    /\ \E order \in IterationOrders(storages) :
          rendered' = Some([system_prompt |-> to_system_prompt(order),
                            prompt |-> to_prompt])
    /\ \E io \in DumpOutcomes, order \in IterationOrders(storages) :
          /\ files' = dump_state(io, order).files
          /\ dump_ok' = IF dump_state(io, order).ok THEN 1 ELSE 0
          /\ dump_failed' = (io # "ok")
          /\ pc' = IF dump_state(io, order).ok THEN "generate" ELSE "returned_err"
    /\ dump_calls' = 1
    /\ UNCHANGED <<calls, lockVars, ragVars,
                   parseVars, buildVars, stateVars, persist_state_path,
                   persist_prompt_path, invocations, prev, step_parsed, processed,
                   executed, completed_at, last, generated>>

\* step, lines 201-207: the response arrives and is parsed
StepGenerate ==
    /\ pc = "generate"
    /\ \E n \in 0..(MaxFragments - generated) :
          \E toks \in [1..n -> Fragments] :
             LET r == parse_model_response(Flatten(toks))
             IN  /\ model_response' = Flatten(toks)
                 /\ generated' = generated + n
                 /\ \E invs \in BuildInvocations(r.invocations) :
                       /\ invocations' = IF r.panicked THEN <<>> ELSE invs
                       /\ step_parsed' = IF r.panicked THEN <<>>
                                         ELSE [i \in 1..Len(invs) |-> invs[i].xml]
                 /\ pc' = IF r.panicked THEN "panicked" ELSE "iterate"
    /\ prev' = None
    /\ rendered' = None
    /\ UNCHANGED <<calls, lockVars, ragVars,
                   parsed, buildVars, stateVars, agentVars, processed, executed,
                   completed_at, dump_calls, dump_ok, last, dump_failed>>

\* step, line 201: generate(req).await? returns an error
StepGenerateFails ==
    /\ pc = "generate"
    /\ pc' = "returned_err"
    /\ rendered' = None
    /\ UNCHANGED <<calls, lockVars, ragVars,
                   parseVars, buildVars, stateVars, agentVars, invocations, prev,
                   step_parsed, processed, executed, completed_at, dump_calls, dump_ok,
                   last, dump_failed, generated>>

\* step, lines 212-217: the invocation repeats prev and is skipped
StepSkip ==
    /\ pc = "iterate"
    /\ invocations # <<>>
    /\ IsDuplicate(Head(invocations), prev)
    /\ invocations' = Tail(invocations)
    /\ processed' = processed + 1
    /\ UNCHANGED <<calls, lockVars, ragVars,
                   parseVars, pc, buildVars, stateVars, agentVars, prev, step_parsed,
                   executed, completed_at, dump_calls, dump_ok, last, rendered,
                   dump_failed, generated>>

\* step, lines 219-229: execute the invocation, dump_state()?, break if complete
StepExecute ==
    /\ pc = "iterate"
    /\ invocations # <<>>
    /\ ~IsDuplicate(Head(invocations), prev)
    /\ LET inv == Head(invocations)
           r == execute(inv, history, complete)
       IN  /\ prev' = Some(inv.xml)
           /\ processed' = processed + 1
           /\ executed' = Append(executed, inv.xml)
           /\ history' = r.history
           /\ last' = Summary(inv, r)
           /\ complete' = r.complete
           /\ completion' = IF IsSome(r.on_complete) THEN r.on_complete ELSE completion
           /\ completed_at' = IF IsSome(r.on_complete) THEN Len(executed) + 1
                              ELSE completed_at
           /\ IF r.panicked
              THEN /\ pc' = "panicked"
                   /\ invocations' = Tail(invocations)
                   /\ UNCHANGED <<files, dump_calls, dump_ok, dump_failed>>
              ELSE \E io \in DumpOutcomes, order \in IterationOrders(storages) :
                      /\ files' = dump_state(io, order).files
                      /\ dump_calls' = dump_calls + 1
                      /\ dump_ok' = IF dump_state(io, order).ok THEN dump_ok + 1
                                    ELSE dump_ok
                      /\ dump_failed' = (io # "ok")
                      /\ pc' = IF dump_state(io, order).ok THEN "iterate"
                               ELSE "returned_err"
                      /\ invocations' = IF dump_state(io, order).ok
                                           /\ ~BreakOnComplete(r.complete)
                                        THEN Tail(invocations)
                                        ELSE <<>>
    /\ UNCHANGED <<calls, lockVars, ragVars,
                   parseVars, buildVars, curr_iter, max_iters, advances, storages,
                   persist_state_path, persist_prompt_path, step_parsed, rendered,
                   generated>>

\* step, line 232: the for loop is over, Ok(())
StepEnd ==
    /\ pc = "iterate"
    /\ invocations = <<>>
    /\ pc' = "returned_ok"
    /\ UNCHANGED <<calls, lockVars, ragVars,
                   parseVars, buildVars, stateVars, agentVars, stepVars, generated>>

\* step has returned to the caller, whose loop goes on; the locals of step are gone
StepReturn ==
    /\ pc \in {"returned_ok", "returned_err"}
    /\ pc' = "idle"
    /\ model_response' = <<>>
    /\ invocations' = <<>>
    /\ prev' = None
    /\ step_parsed' = <<>>
    /\ processed' = 0
    /\ executed' = <<>>
    /\ completed_at' = 0
    /\ dump_calls' = 0
    /\ dump_ok' = 0
    /\ last' = None
    /\ rendered' = None
    /\ dump_failed' = FALSE
    /\ UNCHANGED <<calls, lockVars, ragVars,
                   parsed, buildVars, stateVars, agentVars, generated>>

Next ==
    \/ CallerStops
    \/ CallerAdvance
    \/ StepBegin
    \/ StepGenerate
    \/ StepGenerateFails
    \/ StepSkip
    \/ StepExecute
    \/ StepEnd
    \/ StepReturn

Spec == Init /\ [][Next]_vars

-----------------------------------------------------------------------------
(* Invocation::new and the parser together *)

MaxBuilt == 2

FieldChoices ==
    { <<a, at, p>> :
        a \in {<<"a">>, <<"c", "m", "d">>},
        at \in {None, Some({}), Some({<<<<"k">>, <<"v">>>>}),
                Some({<<<<"k">>, <<"v">>>>, <<<<"j">>, <<"w">>>>})},
        p \in {None, Some(<<"x">>), Some(<<"x", " ", "y">>)} }

NoDriver ==
    /\ complete = FALSE
    /\ completion = None
    /\ curr_iter = 0
    /\ max_iters = 0
    /\ storages = NewStorages(namespaces)
    /\ advances = <<>>
    /\ history = <<>>
    /\ persist_state_path = None
    /\ persist_prompt_path = None
    /\ files = NoFiles
    /\ StepIdle
    /\ Unlocked
    /\ calls = <<>>
    /\ NoStore
    /\ generated = 0

RoundTripInit ==
    /\ fields \in FieldChoices
    /\ built = <<>>
    /\ model_response = <<>>
    /\ parsed = NotParsed
    /\ pc = "build"
    /\ NoDriver

\* one call of Invocation::new on the fields
Build ==
    /\ pc = "build"
    /\ Len(built) < MaxBuilt
    /\ \E inv \in InvocationsOf(fields[1], fields[2], fields[3]) :
          built' = Append(built, inv)
    /\ UNCHANGED <<calls, lockVars, ragVars,
                   parseVars, pc, fields, stateVars, agentVars, stepVars, generated>>

\* parse_model_response on the canonical form of the first Invocation built
Reparse ==
    /\ pc = "build"
    /\ built # <<>>
    /\ model_response' = to_structured_string(built[1])
    /\ LET r == parse_model_response(to_structured_string(built[1]))
       IN  \E invs \in BuildInvocations(r.invocations) :
              parsed' = [panicked |-> r.panicked, invocations |-> invs, scan |-> r.scan]
    /\ pc' = "reparsed"
    /\ UNCHANGED <<calls, lockVars, ragVars,
                   buildVars, stateVars, agentVars, stepVars, generated>>

RoundTripNext == Build \/ Reparse

RoundTripSpec == RoundTripInit /\ [][RoundTripNext]_vars

-----------------------------------------------------------------------------
(* The parser on its own *)

ParseInit ==
    /\ \E n \in 0..MaxTokens :
          \E toks \in [1..n -> Tokens] : model_response = Flatten(toks)
    /\ parsed = NotParsed
    /\ pc = "parse"
    /\ fields = <<>>
    /\ built = <<>>
    /\ NoDriver

\* one call of parse_model_response on the text
Parse ==
    /\ pc = "parse"
    /\ LET r == parse_model_response(model_response)
       IN  \E invs \in BuildInvocations(r.invocations) :
              parsed' = [panicked |-> r.panicked, invocations |-> invs, scan |-> r.scan]
    /\ pc' = IF parse_model_response(model_response).panicked THEN "panicked" ELSE "parsed"
    /\ UNCHANGED <<calls, lockVars, ragVars,
                   model_response, buildVars, stateVars, agentVars, stepVars, generated>>

ParseNext == Parse

ParseSpec == ParseInit /\ [][ParseNext]_vars

-----------------------------------------------------------------------------
(* Properties of the parser *)

CountChar(s, c) == Cardinality({i \in 1..Len(s) : s[i] = c})

\* the scan records of the tags that were emitted, in order: the i-th belongs
\* to the i-th invocation
EmittedScan == SelectSeq(parsed.scan, LAMBDA r : r.emitted)

AbandonedScan == SelectSeq(parsed.scan, LAMBDA r : ~r.emitted)

PlainChar(c) == c \notin {"<", ">", " ", "/", "=", "\""}

\* s holds, from 0-based index q on, <name>payload</name> with a non-empty
\* plain name of n characters and a plain payload of m characters
WellFormedTag(s, q, n, m) ==
    /\ q + 2 * n + m + 5 <= Len(s)
    /\ s[q + 1] = "<"
    /\ \A i \in 1..n : PlainChar(s[q + 1 + i])
    /\ s[q + n + 2] = ">"
    /\ \A i \in 1..m : PlainChar(s[q + n + 2 + i])
    /\ Slice(s, q + n + 2 + m, q + 2 * n + m + 5)
         = <<"<", "/">> \o Slice(s, q + 1, q + 1 + n) \o <<">">>

WellFormedTagAt(s, q) ==
    \E n \in 1..Len(s), m \in 0..Len(s) : WellFormedTag(s, q, n, m)

\* C1: parse_model_response returns for every text, without panicking, and
\* returns at most as many invocations as the text has '<' characters.
C1_ParserTotality ==
    pc # "parse" =>
        /\ ~parsed.panicked
        /\ Len(parsed.invocations) <= CountChar(model_response, "<")

\* C2: a '<' that is abandoned never costs a later well-formed tag: every
\* <name>payload</name> that begins after an abandoned '<' is emitted (or lies
\* in the region of a tag that was).
C2_SelfHealing ==
    pc = "parsed" =>
        \A i \in 1..Len(AbandonedScan) :
            \A q \in (AbandonedScan[i].open + 1)..(Len(model_response) - 1) :
                WellFormedTagAt(model_response, q) =>
                    \E j \in 1..Len(EmittedScan) :
                        /\ EmittedScan[j].open <= q
                        /\ q < EmittedScan[j].end

\* C3: after a tag is emitted the scan goes on right after its closing tag: no
\* later invocation begins inside the region of an earlier one, and a
\* well-formed tag that begins right after the closing tag is emitted.
C3_ContinueAfterTag ==
    pc = "parsed" =>
        /\ \A i, j \in 1..Len(EmittedScan) :
              i < j => EmittedScan[j].open >= EmittedScan[i].end
        /\ \A i \in 1..Len(EmittedScan) :
              WellFormedTagAt(model_response, EmittedScan[i].end) =>
                  \E j \in 1..Len(EmittedScan) :
                      EmittedScan[j].open = EmittedScan[i].end

\* the character that ends the name of the tag of the i-th invocation
NameTerminator(i) ==
    model_response[EmittedScan[i].open + Len(parsed.invocations[i].action) + 2]

Text_CmdPayload == <<"<", "a", ">", "x", "<", "/", "a", ">">>

Text_CmdAttr ==
    <<"<", "a", " ", "k", "=", "\"", "v", "\"", ">", "<", "/", "a", ">">>

\* C5: an emitted invocation has attributes None exactly when '>' ends its tag
\* name and Some(mapping) exactly when a space does, whether or not any
\* key="value" pair matched; <a>x</a> gives None, <a k="v"></a> gives
\* Some({k: v}) and payload None.
C5_AttributePresence ==
    pc = "parsed" =>
        /\ \A i \in 1..Len(parsed.invocations) :
              /\ parsed.invocations[i].attributes = None <=> NameTerminator(i) = ">"
              /\ IsSome(parsed.invocations[i].attributes) <=> NameTerminator(i) = " "
        /\ model_response = Text_CmdPayload =>
              /\ Len(parsed.invocations) = 1
              /\ parsed.invocations[1].attributes = None
        /\ model_response = Text_CmdAttr =>
              /\ Len(parsed.invocations) = 1
              /\ parsed.invocations[1].attributes = Some({<<<<"k">>, <<"v">>>>})
              /\ parsed.invocations[1].payload = None

\* a tag with a space after its name and no key="value" pair has been parsed
C5_Witness ==
    /\ pc = "parsed"
    /\ \E i \in 1..Len(parsed.invocations) :
          /\ parsed.invocations[i].attributes = Some({})
          /\ NameTerminator(i) = " "

-----------------------------------------------------------------------------
(* Properties of Invocation::new *)

\* C4: parsing the canonical form of an Invocation built from (action,
\* attributes, payload) returns exactly one Invocation with these three fields.
C4_RoundTrip ==
    pc = "reparsed" =>
        /\ ~parsed.panicked
        /\ Len(parsed.invocations) = 1
        /\ parsed.invocations[1].action = fields[1]
        /\ parsed.invocations[1].attributes = fields[2]
        /\ parsed.invocations[1].payload = fields[3]

\* C6: two Invocations built from the same action, attributes and payload have
\* the same canonical form.
C6_CanonicalDeterministic ==
    \A i, j \in 1..Len(built) :
        to_structured_string(built[i]) = to_structured_string(built[j])

-----------------------------------------------------------------------------
(* Properties of the driver loop *)

\* xs without the elements that repeat their predecessor
RECURSIVE Runs(_)
Runs(xs) ==
    IF Len(xs) <= 1 THEN xs
    ELSE IF xs[Len(xs)] = xs[Len(xs) - 1] THEN Runs(SubSeq(xs, 1, Len(xs) - 1))
    ELSE Append(Runs(SubSeq(xs, 1, Len(xs) - 1)), xs[Len(xs)])

\* the invocations handed to execute are the visited ones, each run of equal
\* canonical forms counted once; a step that ends without completion has
\* visited them all
C7_ExecutedAreRuns ==
    /\ executed = Runs(SubSeq(step_parsed, 1, processed))
    /\ (pc = "returned_ok" /\ ~complete) => processed = Len(step_parsed)

\* the for loop is at an invocation whose canonical form is that of the last
\* invocation executed in this step
C7_AtDuplicate ==
    /\ pc = "iterate"
    /\ invocations # <<>>
    /\ executed # <<>>
    /\ step_parsed[processed + 1] = executed[Len(executed)]

C7_Skipped ==
    /\ processed' = processed + 1
    /\ executed' = executed
    /\ history' = history
    /\ dump_calls' = dump_calls
    /\ files' = files

\* C7: an invocation whose canonical form equals that of the last executed
\* invocation of the step is skipped: no execute, no history record, no
\* snapshot.  Hence execute is called once per run of equal canonical forms:
\* once for A, A, A and three times for A, B, A.
C7_DuplicateSuppression ==
    /\ []C7_ExecutedAreRuns
    /\ [][C7_AtDuplicate => C7_Skipped]_vars

\* a step has parsed three invocations with one canonical form and has
\* returned after a single execute
C7_Witness ==
    /\ pc = "returned_ok"
    /\ Len(step_parsed) = 3
    /\ step_parsed[1] = step_parsed[2]
    /\ step_parsed[2] = step_parsed[3]
    /\ processed = 3
    /\ Len(executed) = 1

\* C8: when the execution of the k-th executed invocation of a step sets the
\* completion flag, nothing is executed after it in the step, and dump_state
\* has been called after it (once at the start of the step and once after each
\* execute), writing the snapshot where a destination is configured.
C8_CompletionHalts ==
    completed_at # 0 =>
        /\ Len(executed) = completed_at
        /\ dump_calls = Len(executed) + 1
        /\ (dump_ok = dump_calls /\ IsSome(persist_state_path)) =>
               \E order \in IterationOrders(storages) :
                   files.state = Some(FileWith(to_pretty_string(order)))

\* three invocations were parsed, the first one completed the task and the step
\* returned after one execute and its snapshot
C8_Witness ==
    /\ pc = "returned_ok"
    /\ Len(step_parsed) = 3
    /\ completed_at = 1
    /\ Len(executed) = 1
    /\ dump_ok = 2
    /\ IsSome(files.state)
    /\ Len(Unwrap(files.state)) = 1

\* C9: execute is never called in a state in which the completion flag holds,
\* neither later in the step that set it (the break of step) nor in a later
\* step (the caller calls step no more once is_complete() holds).
C9_NoExecuteOnceComplete ==
    /\ [][Len(executed') = Len(executed) + 1 => ~complete]_vars
    /\ [][(complete /\ pc = "idle") => pc' = "finished"]_vars

\* the first invocation of a step set the flag while another invocation, not a
\* repetition of it, was still to be visited and the budget allowed more steps:
\* the step has returned without executing it
C9_Witness ==
    /\ pc = "returned_ok"
    /\ complete
    /\ completed_at = 1
    /\ Len(step_parsed) = 2
    /\ step_parsed[2] # step_parsed[1]
    /\ processed = 1
    /\ Len(executed) = 1
    /\ curr_iter < MaxSteps
    /\ max_iters = 0

-----------------------------------------------------------------------------
(* The State on its own: its operations called in any order, also once the
   completion flag is set *)

MaxFlagCalls == 5

FlagOps == {"execute", "on_next_iteration", "on_complete", "render"}

\* the fields of the invocations handed to execute
FlagFieldChoices ==
    { <<N_done, None, Some(<<"o", "k">>)>>, <<N_fail, None, Some(<<"n", "o">>)>>,
      <<N_ping, None, None>>, <<N_read_file, None, Some(Path_b)>>,
      <<<<"z", "z">>, None, Some(<<"q">>)>> }

\* the entry of `calls` for an operation
FlagCall(op, after) == [op |-> op, before |-> complete, after |-> after]

FlagInit ==
    /\ fields = <<>>
    /\ built = <<>>
    /\ model_response = <<>>
    /\ parsed = NotParsed
    /\ pc = "flag"
    /\ NoDriver

\* State::execute
FlagExecute ==
    /\ pc = "flag"
    /\ Len(calls) < MaxFlagCalls
    /\ \E f \in FlagFieldChoices :
          \E inv \in InvocationsOf(f[1], f[2], f[3]) :
             LET r == execute(inv, history, complete)
             IN  /\ history' = r.history
                 /\ complete' = r.complete
                 /\ completion' = IF IsSome(r.on_complete) THEN r.on_complete
                                   ELSE completion
                 /\ calls' = Append(calls, FlagCall("execute", r.complete))
                 /\ pc' = IF r.panicked THEN "panicked" ELSE "flag"
    /\ UNCHANGED <<lockVars, ragVars, parseVars, buildVars, curr_iter, max_iters,
                   advances, storages, agentVars, stepVars, generated>>

\* State::on_next_iteration
FlagNextIteration ==
    /\ pc = "flag"
    /\ Len(calls) < MaxFlagCalls
    /\ curr_iter' = on_next_iteration(curr_iter, max_iters).curr_iter
    /\ advances' = Append(advances, on_next_iteration(curr_iter, max_iters).ok)
    /\ calls' = Append(calls, FlagCall("on_next_iteration", complete))
    /\ UNCHANGED <<lockVars, ragVars, parseVars, pc, buildVars, complete, max_iters,
                   history, completion, storages, agentVars, stepVars, generated>>

\* State::on_complete
FlagOnComplete ==
    /\ pc = "flag"
    /\ Len(calls) < MaxFlagCalls
    /\ \E impossible \in BOOLEAN :
          /\ complete' = on_complete(impossible, None)
          /\ completion' = Some(impossible)
          /\ calls' = Append(calls, FlagCall("on_complete", on_complete(impossible, None)))
    /\ UNCHANGED <<lockVars, ragVars, parseVars, pc, buildVars, curr_iter, max_iters,
                   history, advances, storages, agentVars, stepVars, generated>>

\* State::to_system_prompt and State::to_prompt
FlagRender ==
    /\ pc = "flag"
    /\ Len(calls) < MaxFlagCalls
    /\ \E order \in IterationOrders(storages) :
          rendered' = Some([system_prompt |-> to_system_prompt(order),
                            prompt |-> to_prompt])
    /\ calls' = Append(calls, FlagCall("render", complete))
    /\ UNCHANGED <<lockVars, ragVars, parseVars, pc, buildVars, stateVars, agentVars,
                   invocations, prev, step_parsed, processed, executed, completed_at,
                   dump_calls, dump_ok, last, dump_failed, generated>>

FlagNext == FlagExecute \/ FlagNextIteration \/ FlagOnComplete \/ FlagRender

FlagSpec == FlagInit /\ [][FlagNext]_vars

\* C10: the completion flag starts false, holds after every on_complete call,
\* whatever `impossible` was, and once true it stays true, whichever of
\* execute, on_next_iteration, on_complete and the rendering of the prompts is
\* called next.
C10_CompletionMonotone ==
    /\ ~complete
    /\ [](IsSome(completion) => complete)
    /\ [][complete => complete']_vars
    /\ [](\A i \in 1..Len(calls) : calls[i].before => calls[i].after)

\* on_complete set the flag, then each of the four operations was called with
\* the flag set, the last completion being reported as possible
C10_Witness ==
    /\ complete
    /\ Len(calls) = 5
    /\ calls[1].op = "on_complete"
    /\ ~calls[1].before
    /\ calls[1].after
    /\ \A op \in FlagOps : \E i \in 2..Len(calls) : calls[i].op = op /\ calls[i].before
    /\ completion = Some(FALSE)

-----------------------------------------------------------------------------
(* State::on_next_iteration on its own: repeated calls, failing ones included *)

MaxBudget == 9

MaxCalls == 11

IterInit ==
    /\ max_iters \in 0..MaxBudget
    /\ storages = NewStorages(namespaces)
    /\ last = None
    /\ rendered = None
    /\ dump_failed = FALSE
    /\ curr_iter = 0
    /\ advances = <<>>
    /\ complete = FALSE
    /\ completion = None
    /\ history = <<>>
    /\ persist_state_path = None
    /\ persist_prompt_path = None
    /\ files = NoFiles
    /\ StepIdle
    /\ Unlocked
    /\ calls = <<>>
    /\ NoStore
    /\ generated = 0
    /\ model_response = <<>>
    /\ parsed = NotParsed
    /\ fields = <<>>
    /\ built = <<>>
    /\ pc = "advance"

\* one call of on_next_iteration, whatever the earlier calls returned
NextIteration ==
    /\ pc = "advance"
    /\ Len(advances) < MaxCalls
    /\ curr_iter' = on_next_iteration(curr_iter, max_iters).curr_iter
    /\ advances' = Append(advances, on_next_iteration(curr_iter, max_iters).ok)
    /\ UNCHANGED <<calls, lockVars, ragVars,
                   parseVars, pc, buildVars, complete, max_iters, history, completion,
                   storages, agentVars, stepVars, generated>>

IterNext == NextIteration

IterSpec == IterInit /\ [][IterNext]_vars

\* C11: with max_iters = N > 0 the k-th call of on_next_iteration returns
\* Ok(()) exactly when k < N (the first N - 1 calls succeed, the N-th and
\* every later call fail); with max_iters = 0 every call returns Ok(()).
C11_BudgetCounting ==
    \A k \in 1..Len(advances) :
        advances[k] <=> (max_iters = 0 \/ k < max_iters)

\* with a budget of 3, two calls succeeded and the third, fourth and fifth failed
C11_Witness ==
    /\ max_iters = 3
    /\ advances = <<TRUE, TRUE, FALSE, FALSE, FALSE>>

\* C12: whenever max_iters > 0 the counter is below it, in every reachable
\* state, the state left by a failing on_next_iteration included.
C12_IterationBound ==
    max_iters > 0 => curr_iter < max_iters

-----------------------------------------------------------------------------
(* State::execute on its own: calls with every shape of invocation *)

MaxExec == 2

ExecFieldChoices ==
    { <<a, at, p>> :
        a \in {N_read_file, N_read_folder, N_done, N_note, N_ping, N_set, <<"z", "z">>},
        at \in {None, Some({}), Some(X_attrs)},
        p \in {None, Some(X_reason), Some(X_read_file), Some(Path_a), Some(Path_b),
               Some(Path_d), Some(Path_l)} }

ExecInit ==
    /\ fields = <<>>
    /\ built = <<>>
    /\ model_response = <<>>
    /\ parsed = NotParsed
    /\ pc = "execute"
    /\ NoDriver

\* one call of execute on an Invocation built from some fields
Execute ==
    /\ pc = "execute"
    /\ Len(executed) < MaxExec
    /\ \E f \in ExecFieldChoices :
          \E inv \in InvocationsOf(f[1], f[2], f[3]) :
             LET r == execute(inv, history, complete)
             IN  /\ fields' = f
                 /\ executed' = Append(executed, inv.xml)
                 /\ history' = r.history
                 /\ complete' = r.complete
                 /\ completion' = IF IsSome(r.on_complete) THEN r.on_complete
                                   ELSE completion
                 /\ last' = Summary(inv, r)
                 /\ pc' = IF r.panicked THEN "panicked" ELSE "execute"
    /\ UNCHANGED <<calls, lockVars, ragVars,
                   parseVars, built, curr_iter, max_iters, advances, storages,
                   agentVars, invocations, prev, step_parsed, processed, completed_at,
                   dump_calls, dump_ok, rendered, dump_failed, generated>>

ExecNext == Execute

ExecSpec == ExecInit /\ [][ExecNext]_vars

\* the names of the actions of the active namespaces
KnownNames ==
    {AllActions(namespaces)[i].name : i \in 1..Len(AllActions(namespaces))}

\* this step is a call of execute
ExecuteCalled == Len(executed') = Len(executed) + 1

\* the invocation of the call of execute made by this step
Called == Unwrap(last').invocation

\* the call returned Ok(()), without panicking
ReturnedOk == pc' # "panicked" /\ ~Unwrap(last').panicked /\ Unwrap(last').ok

\* C13: execute on an invocation whose action name is that of no action of
\* the active namespaces returns Ok(()), runs no action and leaves history,
\* storages, the completion flag and the iteration counter as they were.
C13_UnknownIsNoOp ==
    [][(ExecuteCalled /\ Called.action \notin KnownNames) =>
          /\ ReturnedOk
          /\ ~Unwrap(last').ran
          /\ history' = history
          /\ storages' = storages
          /\ complete' = complete
          /\ completion' = completion
          /\ curr_iter' = curr_iter]_vars

\* a known action left a record and the call for an unknown name that
\* followed left none
C13_Witness ==
    /\ pc = "execute"
    /\ Len(executed) = 2
    /\ Len(history) = 1
    /\ Unwrap(last).invocation.action \notin KnownNames
    /\ Unwrap(last).ok

\* the supplied payload is the example payload of the action, or the supplied
\* attributes are its example attributes
UsesExample(inv) ==
    /\ inv.action \in KnownNames
    /\ \/ IsSome(inv.payload)
          /\ Unwrap(FindAction(inv.action)).example_payload = inv.payload
       \/ IsSome(inv.attributes)
          /\ Unwrap(FindAction(inv.action)).attributes = inv.attributes

\* C14: when execute is called for a known action with its example payload
\* or its example attributes, the action is not run, one record with the fixed
\* corrective message is appended and Ok(()) is returned.
C14_ExampleMisuseGuard ==
    [][(ExecuteCalled /\ UsesExample(Called)) =>
          /\ ReturnedOk
          /\ ~Unwrap(last').ran
          /\ history' = Append(history, [invocation |-> Called, result |-> None,
                                         error |-> Some(ExampleError)])]_vars

\* C15: every call of execute for a known action appends exactly one record
\* and returns Ok(()), whatever of payload and attributes the invocation has
\* and whatever examples the action documents.
C15_OneRecordPerCall ==
    [][(ExecuteCalled /\ Called.action \in KnownNames) =>
          /\ ReturnedOk
          /\ Len(history') = Len(history) + 1
          /\ SubSeq(history', 1, Len(history)) = history
          /\ history'[Len(history')].invocation = Called]_vars

\* C17: every record of the history has exactly one of result and error.
C17_ResultXorError ==
    \A i \in 1..Len(history) :
        IsSome(history[i].result) # IsSome(history[i].error)

-----------------------------------------------------------------------------
(* Properties of execute and dump_state inside the driver loop *)

\* what the run of the action named by inv returns
RunOf(inv) ==
    RunAction(Unwrap(FindAction(inv.action)), inv.attributes, inv.payload)

\* this step is a call of execute in which the action was run and returned Err
ActionFailed ==
    /\ ExecuteCalled
    /\ Unwrap(last').ran
    /\ ~Unwrap(last').panicked
    /\ ~RunOf(Called).ok

\* C16: when the run of a known action returns an error, execute appends a
\* record with no result and the failure text as error and returns Ok(()), and
\* step goes on: it calls dump_state and, unless that write fails, turns to the
\* next invocation.
C16_ActionErrorContinues ==
    [][ActionFailed =>
          /\ ReturnedOk
          /\ history' = Append(history, [invocation |-> Called, result |-> None,
                                         error |-> RunOf(Called).value])
          /\ dump_calls' = dump_calls + 1
          /\ ~dump_failed' => /\ pc' = "iterate"
                              /\ invocations' = Tail(invocations)
                              /\ processed' = processed + 1]_vars

\* a step whose first action failed has executed a second invocation
C16_Witness ==
    /\ pc = "returned_ok"
    /\ Len(executed) = 2
    /\ Len(history) >= 2
    /\ history[Len(history) - 1].invocation.xml = executed[1]
    /\ history[Len(history) - 1].result = None
    /\ history[Len(history) - 1].error = Some("No such file or directory")
    /\ history[Len(history)].invocation.xml = executed[2]

\* C18: a write of dump_state that fails makes step return the error: at the
\* start of the step before the generation service is called and before
\* anything is executed, after an execute before any other invocation is
\* executed.  Without destinations dump_state writes nothing and never fails.
C18_PersistenceFatal ==
    /\ [](dump_failed => pc = "returned_err")
    /\ []((dump_failed /\ dump_calls = 1) => (IsSome(rendered) /\ executed = <<>>))
    /\ [][pc = "returned_err" =>
             /\ pc' = "idle"
             /\ history' = history
             /\ complete' = complete
             /\ generated' = generated]_vars
    /\ []((persist_state_path = None /\ persist_prompt_path = None) =>
             (~dump_failed /\ dump_ok = dump_calls /\ files = NoFiles))

\* the write after the first execute failed while invocations were left
C18_Witness ==
    /\ pc = "returned_err"
    /\ dump_failed
    /\ dump_calls = 2
    /\ Len(executed) = 1
    /\ Len(step_parsed) = 3
    /\ step_parsed[2] # step_parsed[1]
    /\ processed = 1

\* C19: after a dump_state without failing write, the prompt destination, if
\* configured, holds the rendered prompt of the state and the state
\* destination, if configured, holds the debug snapshot: the slots and the
\* banner, without the descriptions of the actions.
C19_PersistedContent ==
    (pc \in {"generate", "iterate", "returned_ok", "returned_err"}
        /\ dump_calls > 0 /\ ~dump_failed) =>
        /\ IsSome(persist_prompt_path) => files.prompt = Some(FileWith(to_prompt))
        /\ IsSome(persist_state_path) =>
              /\ \E order \in IterationOrders(storages) :
                    files.state = Some(FileWith(to_pretty_string(order)))
              /\ DOMAIN Unwrap(files.state)[1] = {"storages", "iterations"}

\* the rendering priority of the slot a text block belongs to
BlockPriority(block) ==
    get_type_int(CHOOSE st \in storages : st.name = block.slot)

\* the blocks are in the order of the priority of their slots
InPriorityOrder(blocks) ==
    \A i, j \in 1..Len(blocks) :
        i < j => BlockPriority(blocks[i]) <= BlockPriority(blocks[j])

\* C20: in the system prompt and in the debug snapshot the slots are rendered
\* in the order of their kinds' priority (the goal before the memories),
\* whatever order the map iterates in.
C20_SlotOrder ==
    /\ IsSome(rendered) => InPriorityOrder(Unwrap(rendered).system_prompt.storages)
    /\ (IsSome(files.state) /\ Len(Unwrap(files.state)) = 1) =>
           InPriorityOrder(Unwrap(files.state)[1].storages)

-----------------------------------------------------------------------------
(* Properties of the filesystem actions and of the parsed payload *)

\* C21: execute for read-file or read-folder with an invocation that has no
\* payload returns Ok(()) and appends one record with an error and no result;
\* nothing panics.
C21_AbsentPayloadRecorded ==
    [][(ExecuteCalled /\ Called.action \in {N_read_file, N_read_folder}
           /\ Called.payload = None) =>
          /\ ReturnedOk
          /\ Len(history') = Len(history) + 1
          /\ history'[Len(history')].invocation = Called
          /\ history'[Len(history')].result = None
          /\ IsSome(history'[Len(history')].error)]_vars

\* the text between the '>' of the opening tag of the i-th invocation and its
\* closing tag
PayloadRegion(i) ==
    LET open == EmittedScan[i].open
        tag_close_idx == FindChar(SliceFrom(model_response, open), {">"})
    IN  Slice(model_response, open + tag_close_idx + 1,
              EmittedScan[i].end - Len(parsed.invocations[i].action) - 3)

\* C22: the payload of every emitted invocation is None or a non-empty
\* trimmed text; a region that is empty or only whitespace gives None, and so
\* does a region that begins with '<'.
C22_PayloadNonEmpty ==
    pc = "parsed" =>
        \A i \in 1..Len(parsed.invocations) :
            LET payload == parsed.invocations[i].payload
            IN  /\ IsSome(payload) =>
                      /\ Unwrap(payload) # <<>>
                      /\ Trim(Unwrap(payload)) = Unwrap(payload)
                /\ Trim(PayloadRegion(i)) = <<>> => payload = None
                /\ (PayloadRegion(i) # <<>> /\ PayloadRegion(i)[1] = "<") =>
                      payload = None

-----------------------------------------------------------------------------
(* The history mutex and the completion flag during one call of execute: the
   action being run calls back into the state *)

MaxLockCalls == 2

MaxOps == 2

\* what an action may call on the state it is handed
RunOps == {"to_chat_history", "on_complete", "is_complete"}

\* the invocation that is executed
LockInvocation == InvocationNew(N_ping, None, None, <<>>)

\* a guard that is kept beyond its scope
DropGuard_Leaked(holder) == holder

\* the MutexGuard goes out of scope (end of the if-let block of
\* add_execution_to_history, end of the statement of to_chat_history)
DropGuard(holder) == "free"

LockInit ==
    /\ fields = <<>>
    /\ built = <<>>
    /\ model_response = <<>>
    /\ parsed = NotParsed
    /\ pc = "lk_idle"
    /\ NoDriver

\* execute, lines 224-246: the action is found and its run begins; execute has
\* not touched the mutex
ExecuteEnter ==
    /\ pc = "lk_idle"
    /\ Len(executed) < MaxLockCalls
    /\ \E n \in 0..MaxOps : \E ops \in [1..n -> RunOps] : run_ops' = ops
    /\ run_done' = <<>>
    /\ executed' = Append(executed, LockInvocation.xml)
    /\ pc' = "lk_run"
    /\ UNCHANGED <<calls, mutex, ragVars, parseVars, buildVars, stateVars, agentVars,
                   invocations, prev, step_parsed, processed, completed_at, dump_calls,
                   dump_ok, last, rendered, dump_failed, generated>>

\* the action calls to_chat_history: self.history.lock() returns once the
\* mutex is free
RunLocksHistory ==
    /\ pc = "lk_run"
    /\ run_ops # <<>>
    /\ Head(run_ops) = "to_chat_history"
    /\ mutex = "free"
    /\ mutex' = "action"
    /\ pc' = "lk_reading"
    /\ UNCHANGED <<calls, run_ops, run_done, ragVars, parseVars, buildVars, stateVars,
                   agentVars, stepVars, generated>>

\* to_chat_history returns and its guard is dropped
RunReadsHistory ==
    /\ pc = "lk_reading"
    /\ mutex' = DropGuard(mutex)
    /\ run_ops' = Tail(run_ops)
    /\ run_done' = Append(run_done, Head(run_ops))
    /\ pc' = "lk_run"
    /\ UNCHANGED <<calls, ragVars, parseVars, buildVars, stateVars, agentVars, stepVars,
                   generated>>

\* the action calls on_complete: an atomic store, no lock
RunCompletes ==
    /\ pc = "lk_run"
    /\ run_ops # <<>>
    /\ Head(run_ops) = "on_complete"
    /\ complete' = on_complete(FALSE, None)
    /\ completion' = Some(FALSE)
    /\ run_ops' = Tail(run_ops)
    /\ run_done' = Append(run_done, Head(run_ops))
    /\ UNCHANGED <<calls, mutex, ragVars, parseVars, pc, buildVars, curr_iter, max_iters,
                   history, advances, storages, agentVars, stepVars, generated>>

\* the action calls is_complete: an atomic load, no lock
RunChecksComplete ==
    /\ pc = "lk_run"
    /\ run_ops # <<>>
    /\ Head(run_ops) = "is_complete"
    /\ run_ops' = Tail(run_ops)
    /\ run_done' = Append(run_done, Head(run_ops))
    /\ UNCHANGED <<calls, mutex, ragVars, parseVars, pc, buildVars, stateVars, agentVars,
                   stepVars, generated>>

\* action.run returns; execute goes on to add_execution_to_history
RunReturns ==
    /\ pc = "lk_run"
    /\ run_ops = <<>>
    /\ pc' = "lk_append"
    /\ UNCHANGED <<calls, lockVars, ragVars, parseVars, buildVars, stateVars, agentVars,
                   stepVars, generated>>

\* add_execution_to_history: self.history.lock() returns once the mutex is free
AppendLocks ==
    /\ pc = "lk_append"
    /\ mutex = "free"
    /\ mutex' = "execute"
    /\ pc' = "lk_push"
    /\ UNCHANGED <<calls, run_ops, run_done, ragVars, parseVars, buildVars, stateVars,
                   agentVars, stepVars, generated>>

\* guard.push(Execution::new(..)); the guard is dropped; execute returns Ok(())
AppendPushes ==
    /\ pc = "lk_push"
    /\ history' = add_execution_to_history(history, "Ok", LockInvocation,
                                            Some("pong"), None)
    /\ mutex' = DropGuard(mutex)
    /\ pc' = "lk_idle"
    /\ UNCHANGED <<calls, run_ops, run_done, ragVars, parseVars, buildVars, complete,
                   curr_iter, max_iters, completion, advances, storages, agentVars,
                   stepVars, generated>>

LockNext ==
    \/ ExecuteEnter
    \/ RunLocksHistory
    \/ RunReadsHistory
    \/ RunCompletes
    \/ RunChecksComplete
    \/ RunReturns
    \/ AppendLocks
    \/ AppendPushes

LockSpec == LockInit /\ [][LockNext]_vars

\* C23: execute does not hold the history mutex while the action runs, the
\* completion flag is written without the mutex, and no call of execute gets
\* stuck: the action's reading of the history, its on_complete and the append
\* that follows can always proceed.
C23_NoDeadlock ==
    /\ [](pc \in {"lk_run", "lk_reading"} => mutex # "execute")
    /\ [](pc \in {"lk_run", "lk_reading", "lk_append", "lk_push"} => ENABLED LockNext)
    /\ [][complete' # complete => mutex' = mutex]_vars

\* an action that read the history and then called on_complete has returned,
\* and execute has appended its record and released the mutex
C23_Witness ==
    /\ pc = "lk_idle"
    /\ run_done = <<"to_chat_history", "on_complete">>
    /\ complete
    /\ Len(history) = Len(executed)
    /\ Len(history) >= 1
    /\ mutex = "free"

-----------------------------------------------------------------------------
(* NaiveVectorStore: add and retrieve *)

MaxTopK == 3

\* the idents of the documents that may be added
Docs == {"d1", "d2", "d3"}

Queries == {"q1", "q2"}

\* the document as stored: document.drop_data() has removed its contents
Stored(d) == [ident |-> d, data |-> None]

\* a document read from rag.yml with its contents still in it
Kept(d) == [ident |-> d, data |-> Some("text")]

\* the keys and the idents that rag.yml may hold
LoadedKeys == {"d1", "d2", "a"}

LoadedDocs == {"d1", "d2"}

\* the maps that hold one value of vals, or nothing, under each key of keys
MapsOver(keys, vals) ==
    { {<<key, Unwrap(held[key])>> : key \in {x \in keys : IsSome(held[x])}} :
        held \in [keys -> {None} \cup {Some(v) : v \in vals}] }

\* NaiveVectorStore::from_data_path: Store::new() without rag.yml, else
\* whatever Store the file deserializes to: any document under any key, with
\* or without its contents, and any vector under any key
LoadableStores ==
    { [documents |-> documents, embeddings |-> embeddings] :
        documents \in MapsOver(LoadedKeys, {Stored(d) : d \in LoadedDocs}
                                              \cup {Kept(d) : d \in LoadedDocs}),
        embeddings \in MapsOver(LoadedKeys, {<<"vector of", d>> : d \in LoadedDocs}) }

\* self.embedder.embeddings(text): the vector of a text
Embeddings(text) == <<"vector of", text>>

\* metrics::cosine(query_vector, doc_embedding); documents may tie
cosine(query_vector, doc_embedding) ==
    LET q == query_vector[2]
        d == doc_embedding[2]
    IN  CASE q = "q1" /\ d = "d1" -> 1
          [] q = "q1" /\ d = "d2" -> 2
          [] q = "q1" /\ d = "d3" -> 2
          [] q = "q2" /\ d = "d1" -> 3
          [] q = "q2" /\ d = "d2" -> 1
          [] q = "q2" /\ d = "d3" -> 2

\* HashMap::contains_key
ContainsKey(m, key) == \E e \in m : e[1] = key

\* HashMap::get(key).unwrap()
MapGet(m, key) == (CHOOSE e \in m : e[1] = key)[2]

\* NaiveVectorStore::add when `io` goes wrong ("ok": nothing does): the store
\* it leaves and what it returns
add(st, d, io) ==
    IF ContainsKey(st.documents, d) THEN [store |-> st, ret |-> "Ok(false)"]
    ELSE IF io = "embeddings" THEN [store |-> st, ret |-> "Err"]
    ELSE [store |-> [documents |-> MapInsert(st.documents, d, Stored(d)),
                     embeddings |-> MapInsert(st.embeddings, d, Embeddings(d))],
          ret |-> IF io = "persist" THEN "Err" ELSE "Ok(true)"]

\* distances.par_sort_by(|(_, a), (_, b)| a.partial_cmp(b).unwrap()): a stable
\* sort by score
RECURSIVE SortByScore(_)
SortByScore(distances) ==
    IF distances = <<>> THEN <<>>
    ELSE LET rest == SortByScore(Tail(distances))
             before == SelectSeq(rest, LAMBDA x : x[2] < Head(distances)[2])
             after == SelectSeq(rest, LAMBDA x : x[2] >= Head(distances)[2])
         IN  before \o <<Head(distances)>> \o after

\* lines 169-175: push, then break once results.len() >= top_k; the unwrap of
\* line 170 panics on an embedding whose document is missing
RECURSIVE RetrieveLoop(_, _, _, _)
RetrieveLoop(st, distances, res, k) ==
    IF distances = <<>> THEN [panicked |-> FALSE, results |-> res]
    ELSE IF ~ContainsKey(st.documents, Head(distances)[1])
         THEN [panicked |-> TRUE, results |-> res]
    ELSE LET pushed == Append(res, <<MapGet(st.documents, Head(distances)[1]),
                                     Head(distances)[2]>>)
         IN  IF Len(pushed) >= k THEN [panicked |-> FALSE, results |-> pushed]
             ELSE RetrieveLoop(st, Tail(distances), pushed, k)

\* NaiveVectorStore::retrieve(query, k), self.store.embeddings iterating in
\* `order`
retrieve(st, query, k, order) ==
    LET query_vector == Embeddings(query)
        distances == SortByScore([i \in 1..Len(order) |->
                         <<order[i][1], cosine(query_vector, order[i][2])>>])
    IN  RetrieveLoop(st, distances, <<>>, k)

\* NaiveVectorStore::new: from_data_path, then import_new_documents, which
\* calls add for each document of the source path (the calls of RagAdd)
RagInit ==
    /\ fields = <<>>
    /\ built = <<>>
    /\ model_response = <<>>
    /\ parsed = NotParsed
    /\ pc = "rag"
    /\ complete = FALSE
    /\ completion = None
    /\ curr_iter = 0
    /\ max_iters = 0
    /\ storages = NewStorages(namespaces)
    /\ advances = <<>>
    /\ history = <<>>
    /\ persist_state_path = None
    /\ persist_prompt_path = None
    /\ files = NoFiles
    /\ StepIdle
    /\ Unlocked
    /\ calls = <<>>
    /\ store \in LoadableStores
    /\ results = <<>>
    /\ top_k = 0
    /\ generated = 0

\* one call of add
RagAdd ==
    /\ pc = "rag"
    /\ \E d \in Docs, io \in {"ok", "embeddings", "persist"} :
          store' = add(store, d, io).store
    /\ UNCHANGED <<calls, lockVars, results, top_k, parseVars, pc, buildVars, stateVars,
                   agentVars, stepVars, generated>>

\* one call of retrieve: it panics, or returns Ok(results)
RagRetrieve ==
    /\ pc = "rag"
    /\ \E query \in Queries, k \in 0..MaxTopK, order \in IterationOrders(store.embeddings) :
          /\ results' = IF retrieve(store, query, k, order).panicked THEN <<>>
                        ELSE retrieve(store, query, k, order).results
          /\ top_k' = k
          /\ pc' = IF retrieve(store, query, k, order).panicked THEN "panicked" ELSE "rag"
    /\ UNCHANGED <<calls, lockVars, store, parseVars, buildVars, stateVars, agentVars,
                   stepVars, generated>>

RagNext == RagAdd \/ RagRetrieve

RagSpec == RagInit /\ [][RagNext]_vars

\* C24: retrieve returns at most top_k results, for top_k = 0 too, and a
\* document no more often than the store holds it, whatever was added before.
C24_AtMostTopK ==
    /\ pc = "rag" => Len(results) <= top_k
    /\ \A i \in 1..Len(results) :
          Cardinality({j \in 1..Len(results) : results[j][1] = results[i][1]})
              <= Cardinality({e \in store.documents : e[2] = results[i][1]})

=============================================================================
